---- MODULE Spec2Model ----
(***************************************************************************)
(* A model of the two batch watermarking scripts of exif-watermark:        *)
(*   exif-watermark.py        the footer-template script ("footer")        *)
(*   exif-watermark-embed.py  the overlay script ("embed")                 *)
(* File names, paths and the camera make are sequences of one-character    *)
(* strings, so that lower(), endswith(), the substring test and the slice  *)
(* path[:-4] are computed rather than assumed.  Other strings are TLA+     *)
(* strings, joined with \o as the f-strings of the code join them.         *)
(***************************************************************************)
EXTENDS Integers, Sequences, FiniteSets, TLC

VARIABLES script, opt_no_exif, assets, exif_none_ok, fs, pc, pending, todo, cwd, runs,
          handled, written, startFiles, run1Files, last, probe

vars == <<script, opt_no_exif, assets, exif_none_ok, fs, pc, pending, todo, cwd, runs,
          handled, written, startFiles, run1Files, last, probe>>

(***************************************************************************)
(* Bounds of the model.                                                    *)
(***************************************************************************)
\* batch runs made one after the other on the same directory
MaxRuns == 2
\* numerators and denominators of the ExposureTime rationals tried
MaxExp == 6
\* widths and heights of the source images tried by the scaling probe
MaxDim == 8
\* widths and heights of the signature asset tried by the scaling probe
MaxSig == 3

(***************************************************************************)
(* Python strings as character sequences.                                  *)
(***************************************************************************)
UpperAlpha == <<"A","B","C","D","E","F","G","H","I","J","K","L","M",
                "N","O","P","Q","R","S","T","U","V","W","X","Y","Z">>
LowerAlpha == <<"a","b","c","d","e","f","g","h","i","j","k","l","m",
                "n","o","p","q","r","s","t","u","v","w","x","y","z">>

\* one character of str.lower()
LowerChar(c) ==
    IF \E i \in 1..26 : UpperAlpha[i] = c
    THEN LowerAlpha[CHOOSE i \in 1..26 : UpperAlpha[i] = c]
    ELSE c

\* str.lower()
Lower(s) == [i \in 1..Len(s) |-> LowerChar(s[i])]

\* str.endswith(suf)
EndsWith(s, suf) ==
    /\ Len(s) >= Len(suf)
    /\ SubSeq(s, Len(s) - Len(suf) + 1, Len(s)) = suf

\* the Python test  sub in s
Contains(s, sub) ==
    \E i \in 1..(Len(s) - Len(sub) + 1) : SubSeq(s, i, i + Len(sub) - 1) = sub

\* the Python slice s[:-4]
DropLast4(s) == IF Len(s) <= 4 THEN << >> ELSE SubSeq(s, 1, Len(s) - 4)

DotJpg == <<".","j","p","g">>
SigSuffix == <<"-","s","i","g",".","j","p","g">>
StrHasselblad == <<"h","a","s","s","e","l","b","l","a","d">>
StrSony == <<"s","o","n","y">>
StrUnknown == <<"U","n","k","n","o","w","n">>

(***************************************************************************)
(* Python values held by the EXIF dictionary and by the metadata           *)
(* dictionary.  A "ratio" is the decoder's rational object (it has         *)
(* .numerator and .denominator); a "tuple" is a plain pair, which is what  *)
(* the defaults (0,0) of get_image_metadata are.                           *)
(***************************************************************************)
Str(s) == [kind |-> "str", s |-> s]
Chars(cs) == [kind |-> "chars", cs |-> cs]
IntV(n) == [kind |-> "int", n |-> n]
Ratio(a, b) == [kind |-> "ratio", num |-> a, den |-> b]
Tuple(a, b) == [kind |-> "tuple", num |-> a, den |-> b]

\* the empty dictionary {}
EmptyDict == [k \in {} |-> Str("")]

\* dict.get(key, default)
Get(d, key, default) == IF key \in DOMAIN d THEN d[key] ELSE default

\* truth value of a Python object: a 2-tuple is non-empty, hence true; a
\* rational is true unless it equals zero (x/0 is NaN, which is true)
Truthy(v) ==
    CASE v.kind = "tuple" -> TRUE
      [] v.kind = "ratio" -> v.den = 0 \/ v.num # 0
      [] v.kind = "int" -> v.n # 0
      [] v.kind = "str" -> v.s # ""
      [] OTHER -> v.cs # << >>

\* a non-negative number of tenths written as a decimal with one
\* fractional digit
Tenths(t) == ToString(t \div 10) \o "." \o ToString(t % 10)

\* str(a / b) for b > 0 dividing 10: the quotient is a whole number of
\* tenths, and the shortest repr of that float is the one-digit decimal
PyStrDiv(a, b) == Tenths((10 * a) \div b)

(***************************************************************************)
(* get_image_metadata (the same text in both scripts).                     *)
(***************************************************************************)
\* the keys of the metadata dictionary
Fields == {"ISO", "F-Value", "ExposureTime", "Date Taken", "Device Model",
           "Device Make", "Lens Model", "Focal Length"}

\* the EXIF tag each key is read from
TagOf(k) ==
    CASE k = "ISO" -> "ISOSpeedRatings"
      [] k = "F-Value" -> "FNumber"
      [] k = "ExposureTime" -> "ExposureTime"
      [] k = "Date Taken" -> "DateTimeOriginal"
      [] k = "Device Model" -> "Model"
      [] k = "Device Make" -> "Make"
      [] k = "Lens Model" -> "LensModel"
      [] OTHER -> "FocalLength"

\* the second argument of each exif.get
DefaultOf(k) ==
    CASE k = "ISO" -> Str("??")
      [] k = "F-Value" -> Tuple(0, 0)
      [] k = "ExposureTime" -> Tuple(0, 0)
      [] k = "Date Taken" -> Str("Unknown")
      [] k = "Device Model" -> Str("Unknown")
      [] k = "Device Make" -> Chars(StrUnknown)
      [] k = "Lens Model" -> Str("Unknown")
      [] OTHER -> Str("??")

\* the two ways a Python call ends
Returned(v) == [raised |-> FALSE, err |-> "", md |-> v]
Raised(e) == [raised |-> TRUE, err |-> e, md |-> EmptyDict]

\* the dictionary literal built from the decoded EXIF block
ProjectTags(exif) == [k \in Fields |-> Get(exif, TagOf(k), DefaultOf(k))]

\* the conversion of a tuple F-Value: str(t[0] / t[1])
ConvertFValue(md) ==
    IF md["F-Value"].kind = "tuple"
    THEN IF md["F-Value"].den = 0
         THEN Raised("ZeroDivisionError")
         ELSE Returned([md EXCEPT !["F-Value"] =
                           Str(PyStrDiv(md["F-Value"].num, md["F-Value"].den))])
    ELSE Returned(md)

\* get_image_metadata(image_path), on the file's content img:
\* img.decodable says whether Image.open accepts the file, img.hasExif
\* whether _getexif() returns a dictionary, img.exif is that dictionary
GetImageMetadata(img) ==
    IF ~img.decodable THEN Raised("UnidentifiedImageError")
    ELSE IF ~img.hasExif THEN Returned(EmptyDict)
    ELSE ConvertFValue(ProjectTags(img.exif))

(***************************************************************************)
(* The exposure and caption formatting of create_watermarked_image (the    *)
(* same text in both scripts).                                             *)
(***************************************************************************)
\* the two ways a step that computes a string ends
Ok(s) == [raised |-> FALSE, err |-> "", val |-> s]
Err(e) == [raised |-> TRUE, err |-> e, val |-> ""]

\* FormatF1 with the digits after the first cut off instead of rounded
FormatF1Truncating(m, n) == Tenths((10 * m) \div n)

\* f"{m / n:.1f}" for m >= 0 and 0 < n < 20: the float nearest to m/n,
\* printed with one fractional digit.  With n < 20 a value half way
\* between two tenths is a multiple of 1/4, which the float holds exactly,
\* and the formatting rounds it to the even tenth.
FormatF1(m, n) ==
    LET t == (10 * m) \div n
        rem == 10 * m - t * n
    IN  IF 2 * rem < n THEN Tenths(t)
        ELSE IF 2 * rem > n THEN Tenths(t + 1)
        ELSE IF t % 2 = 0 THEN Tenths(t) ELSE Tenths(t + 1)

\* the if/elif/else that renders numerator and denominator
RenderExposure(exp_numerator, exp_denominator) ==
    IF exp_denominator = 0 THEN "Unknown"
    ELSE IF exp_numerator = 1
         THEN ToString(exp_numerator) \o "/" \o ToString(exp_denominator)
         ELSE FormatF1(exp_numerator, exp_denominator)

\* "Format the exposure time": metadata["ExposureTime"], its truth test,
\* the attribute reads .numerator/.denominator, and the rendering
FormatExposure(metadata) ==
    IF "ExposureTime" \notin DOMAIN metadata THEN Err("KeyError")
    ELSE LET exposure_time == metadata["ExposureTime"]
         IN  IF Truthy(exposure_time)
             THEN IF exposure_time.kind = "ratio"
                  THEN Ok(RenderExposure(exposure_time.num, exposure_time.den))
                  ELSE Err("AttributeError")
             ELSE Ok(RenderExposure(0, 0))

\* what an f-string prints for a value: a string as it is, an integer in
\* decimal, a rational as str(float): "nan" for x/0, else the decimal
\* (the rationals of the model are whole numbers of tenths), a pair as
\* "(a, b)"; the make, the one character sequence, is never printed
FmtVal(v) ==
    CASE v.kind = "str" -> v.s
      [] v.kind = "int" -> ToString(v.n)
      [] v.kind = "ratio" -> IF v.den = 0 THEN "nan" ELSE PyStrDiv(v.num, v.den)
      [] OTHER -> "(" \o ToString(v.num) \o ", " \o ToString(v.den) \o ")"

\* int(metadata['Focal Length']): truncation of a number, ValueError for
\* the default "??" and for NaN
PyInt(v) ==
    CASE v.kind = "int" -> Ok(ToString(v.n))
      [] v.kind = "ratio" -> IF v.den = 0 THEN Err("ValueError")
                             ELSE Ok(ToString(v.num \div v.den))
      [] OTHER -> Err("ValueError")

\* "Define the text content"
ComposeText(metadata, exposure) ==
    IF ~({"Device Model", "Lens Model", "Focal Length", "ISO", "F-Value"}
            \subseteq DOMAIN metadata)
    THEN Err("KeyError")
    ELSE LET focal == PyInt(metadata["Focal Length"])
         IN  IF focal.raised THEN focal
             ELSE Ok(FmtVal(metadata["Device Model"]) \o " + "
                     \o FmtVal(metadata["Lens Model"]) \o "  |  "
                     \o focal.val \o "mm, iso" \o FmtVal(metadata["ISO"])
                     \o ", f/" \o FmtVal(metadata["F-Value"])
                     \o ", " \o exposure \o "s")

\* the caption: exposure formatting, then the text
Caption(metadata) ==
    LET e == FormatExposure(metadata)
    IN  IF e.raised THEN [raised |-> TRUE, err |-> e.err, exposure |-> "", text |-> ""]
        ELSE LET t == ComposeText(metadata, e.val)
             IN  [raised |-> t.raised, err |-> t.err, exposure |-> e.val,
                  text |-> t.val]

(***************************************************************************)
(* create_watermarked_image.  env is what the call finds outside its       *)
(* arguments: env.img the content of the file at input_path, env.size the  *)
(* pixel size <<width, height>> of that image, env.sigsize the pixel size  *)
(* of sig.png, env.assets the asset files that exist, env.exifNoneOk       *)
(* whether save accepts exif=None.  The result says how                    *)
(* the call ended ("saved", "skipped" by the early return, "raised" by an  *)
(* exception, "caught" once the except clause has handled it) and          *)
(* which paths it wrote (out).                                             *)
(***************************************************************************)
Res(status, err, template, cap, sig, out) ==
    [status |-> status, err |-> err, template |-> template,
     exposure |-> cap.exposure, text |-> cap.text, sig |-> sig, out |-> out]

NoCaption == [raised |-> FALSE, err |-> "", exposure |-> "", text |-> ""]
NoSig == <<0, 0>>

Max(a, b) == IF a >= b THEN a ELSE b

\* int(x * r) for a ratio r = <<p, q>>; for the ratios of SigSizes the
\* float product of the code truncates to the same integer as the exact one
IntMul(x, r) == (x * r[1]) \div r[2]

\* save(output_path, quality=95, exif=exif_data) of an image that has no
\* EXIF bytes is given exif=None; whether the JPEG writer accepts that or
\* raises TypeError depends on the imaging library (env.exifNoneOk)
SaveRaises(env) == ~env.img.hasExif /\ ~env.exifNoneOk

\* SelectTemplate with the two tests in the other order
SelectTemplateSonyFirst(device) ==
    IF Contains(Lower(device), StrSony) THEN "watermark-sony.png"
    ELSE IF Contains(Lower(device), StrHasselblad) THEN "watermark-hasselblad.png"
    ELSE ""

\* "Determine the watermark template file" of the footer script; "" is
\* the else branch, which prints and returns
SelectTemplate(device) ==
    IF Contains(Lower(device), StrHasselblad) THEN "watermark-hasselblad.png"
    ELSE IF Contains(Lower(device), StrSony) THEN "watermark-sony.png"
    ELSE ""

\* the try block of create_watermarked_image in exif-watermark.py
BodyFooter(input_path, output_path, metadata, env) ==
    IF ~env.img.decodable
    THEN Res("raised", "UnidentifiedImageError", "", NoCaption, NoSig, {})
    ELSE IF "Device Make" \notin DOMAIN metadata
    THEN Res("raised", "KeyError", "", NoCaption, NoSig, {})
    ELSE LET template == SelectTemplate(metadata["Device Make"].cs)
             cap == Caption(metadata)
         IN  IF template = ""
             THEN Res("skipped", "", "", NoCaption, NoSig, {})
             ELSE IF template \notin env.assets
             THEN Res("raised", "FileNotFoundError", template, NoCaption, NoSig, {})
             ELSE IF "RobotoMono.ttf" \notin env.assets
             THEN Res("raised", "OSError", template, NoCaption, NoSig, {})
             ELSE IF cap.raised
             THEN Res("raised", cap.err, template, cap, NoSig, {})
             ELSE IF SaveRaises(env)
             THEN Res("raised", "TypeError", template, cap, NoSig, {})
             ELSE Res("saved", "", template, cap, NoSig, {output_path})

\* ScaleSignature with the width of the source in place of its larger side
ScaleSignatureByWidth(size, sigsize, sig_size) ==
    LET sig_width == IntMul(size[1], sig_size)
        sig_height == (sigsize[2] * sig_width) \div sigsize[1]
    IN  <<sig_width, sig_height>>

\* sig_width and sig_height of the overlay script
ScaleSignature(size, sigsize, sig_size) ==
    LET sig_width == IntMul(Max(size[1], size[2]), sig_size)
        sig_height == (sigsize[2] * sig_width) \div sigsize[1]
    IN  <<sig_width, sig_height>>

\* the try block of create_watermarked_image in exif-watermark-embed.py;
\* resize refuses a size with a zero side; center only moves the
\* signature inside the canvas
BodyEmbed(input_path, output_path, metadata, no_exif, sig_size, center, env) ==
    IF ~env.img.decodable
    THEN Res("raised", "UnidentifiedImageError", "", NoCaption, NoSig, {})
    ELSE IF "sig.png" \notin env.assets
    THEN Res("raised", "FileNotFoundError", "", NoCaption, NoSig, {})
    ELSE LET sig == ScaleSignature(env.size, env.sigsize, sig_size)
             cap == Caption(metadata)
         IN  IF sig[1] < 1 \/ sig[2] < 1
             THEN Res("raised", "ValueError", "", NoCaption, sig, {})
             ELSE IF ~no_exif /\ "RobotoMono.ttf" \notin env.assets
             THEN Res("raised", "OSError", "", NoCaption, sig, {})
             ELSE IF ~no_exif /\ cap.raised
             THEN Res("raised", cap.err, "", cap, sig, {})
             ELSE IF SaveRaises(env)
             THEN Res("raised", "TypeError", "", NoCaption, sig, {})
             ELSE Res("saved", "", "", IF no_exif THEN NoCaption ELSE cap,
                      sig, {output_path})

\* ExceptException with no except clause: the exception goes on to main
ExceptNothing(r) == r

\* except Exception as e: print(...)
ExceptException(r) ==
    IF r.status = "raised" THEN [r EXCEPT !.status = "caught"] ELSE r

\* create_watermarked_image of exif-watermark.py
CreateWatermarkedImageFooter(input_path, output_path, metadata, env) ==
    ExceptException(BodyFooter(input_path, output_path, metadata, env))

\* create_watermarked_image of exif-watermark-embed.py
CreateWatermarkedImageEmbed(input_path, output_path, metadata, no_exif, sig_size, center, env) ==
    ExceptException(BodyEmbed(input_path, output_path, metadata, no_exif,
                              sig_size, center, env))

(***************************************************************************)
(* The directory tree and the files of the batch runs.                     *)
(***************************************************************************)
Root == <<"d">>
Sub == <<"d","/","s">>
Dirs == {Root, Sub}

\* os.path.join(root, file)
Join(root, file) == root \o <<"/">> \o file

\* the index of the last "/" of a path, 0 when it has none
LastSlash(p) ==
    IF \E i \in 1..Len(p) : p[i] = "/"
    THEN CHOOSE i \in 1..Len(p) : p[i] = "/" /\ \A j \in (i+1)..Len(p) : p[j] # "/"
    ELSE 0
DirOf(p) == SubSeq(p, 1, LastSlash(p) - 1)
Basename(p) == SubSeq(p, LastSlash(p) + 1, Len(p))

\* the files os.walk lists for directory d, and d's subdirectories
Listing(files, d) == {Basename(p) : p \in {q \in files : DirOf(q) = d}}
SubDirs(d) == {e \in Dirs : DirOf(e) = d}

NameA == <<"a",".","j","p","g">>
NameASig == <<"a","-","s","i","g",".","j","p","g">>
NameB == <<"B",".","J","P","G">>
NameN == <<"n",".","p","n","g">>

\* the .jpg files a directory may hold when the first run starts, and a
\* file that is always there and is no .jpg
JpgPaths == {Join(Root, NameA), Join(Root, NameASig), Join(Sub, NameB)}
OtherPath == Join(Root, NameN)

\* file contents
Image(decodable, hasExif, exif) ==
    [decodable |-> decodable, hasExif |-> hasExif, exif |-> exif]
FullExif(make) ==
    [ISOSpeedRatings |-> IntV(400), FNumber |-> Ratio(28, 10),
     ExposureTime |-> Ratio(1, 250),
     DateTimeOriginal |-> Str("2024:01:01 10:00:00"),
     Model |-> Str("X100V"), Make |-> Chars(make),
     LensModel |-> Str("23mm f2"), FocalLength |-> IntV(23)]
Without(exif, tags) == [t \in (DOMAIN exif) \ tags |-> exif[t]]

MakeSony == <<"S","O","N","Y">>
MakeSonyAlpha == <<"S","o","n","y"," ","A","l","p","h","a"," ","7">>
MakeHasselblad == <<"H","A","S","S","E","L","B","L","A","D"," ","X","2","D">>
MakeHasselbladLower == <<"H","a","s","s","e","l","b","l","a","d">>
MakeCanon == <<"C","a","n","o","n"," ","E","O","S">>
MakeBoth == <<"H","a","s","s","e","l","b","l","a","d","/","S","o","n","y">>
MakeBothSonyFirst == <<"s","o","n","y","-","h","a","s","s","e","l","b","l","a","d">>

ImgCorrupt == Image(FALSE, FALSE, EmptyDict)
ImgNoExif == Image(TRUE, FALSE, EmptyDict)
ImgSony == Image(TRUE, TRUE, FullExif(MakeSony))
ImgCanon == Image(TRUE, TRUE, FullExif(MakeCanon))
ImgNoFNumber == Image(TRUE, TRUE, Without(FullExif(MakeSony), {"FNumber"}))
ImgNoFocal ==
    Image(TRUE, TRUE, Without(FullExif(MakeHasselbladLower), {"FocalLength"}))

\* the contents a .jpg file of the directory may have
BatchImages == {ImgCorrupt, ImgNoExif, ImgSony, ImgCanon, ImgNoFNumber, ImgNoFocal}

AllAssets == {"sig.png", "RobotoMono.ttf", "watermark-hasselblad.png",
              "watermark-sony.png"}
\* the asset files that may exist
AssetSets == {AllAssets, AllAssets \ {"RobotoMono.ttf"},
              AllAssets \ {"sig.png", "watermark-sony.png"}}

\* --size: its default 0.15, and other ratios
DefaultSigSize == <<3, 20>>
SigSizes == {DefaultSigSize, <<1, 2>>, <<1, 4>>, <<1, 10>>, <<3, 2>>}

\* pixel sizes of the images and of sig.png in the batch runs
BatchSize == <<40, 30>>
BatchSigSize == <<4, 3>>

(***************************************************************************)
(* main(): the filter of each script, and one iteration of the loops.      *)
(***************************************************************************)
\* the if of main() in exif-watermark.py
IsCandidateFooter(file) == EndsWith(Lower(file), DotJpg)

\* the if of main() in exif-watermark-embed.py
IsCandidateEmbed(file) ==
    EndsWith(Lower(file), DotJpg) /\ ~EndsWith(file, SigSuffix)

IsCandidate(file) ==
    IF script = "footer" THEN IsCandidateFooter(file) ELSE IsCandidateEmbed(file)

\* the second argument main() gives to create_watermarked_image
OutputPath(input_path) == DropLast4(input_path) \o SigSuffix

\* the call of create_watermarked_image made by the running script
Create(input_path, metadata) ==
    LET env == [img |-> fs[input_path], size |-> BatchSize,
                sigsize |-> BatchSigSize, assets |-> assets,
                exifNoneOk |-> exif_none_ok]
    IN  IF script = "footer"
        THEN CreateWatermarkedImageFooter(input_path, OutputPath(input_path),
                                          metadata, env)
        ELSE CreateWatermarkedImageEmbed(input_path, OutputPath(input_path),
                                         metadata, opt_no_exif, DefaultSigSize,
                                         FALSE, env)

\* the file system after save() has written the paths of out: the output
\* is a JPEG that carries the EXIF bytes of the input
Save(files, input_path, out) ==
    [p \in (DOMAIN files) \cup out |->
        IF p \in out
        THEN Image(TRUE, files[input_path].hasExif, files[input_path].exif)
        ELSE files[p]]

NoLast == [path |-> << >>, step |-> "none", status |-> "", err |-> ""]
NoProbe == [fn |-> "none"]

(***************************************************************************)
(* The batch: runs of main() on one directory tree.                        *)
(*   exif_none_ok  whether the JPEG writer accepts exif=None               *)
(*   fs          the files that exist, each with its content               *)
(*   pc          "idle", "walking", "done" (main returned) or "crashed"    *)
(*               (an exception left main)                                  *)
(*   pending     directories os.walk has still to list                     *)
(*   cwd, todo   the directory being walked and its files not yet visited  *)
(*   handled     paths given to create_watermarked_image in this run       *)
(*   written     paths written in this run                                 *)
(*   startFiles  the files that existed when this run started              *)
(*   run1Files   the files that existed when the first run returned        *)
(*   last        how the latest iteration of the loop ended                *)
(***************************************************************************)
Init ==
    /\ script \in {"footer", "embed"}
    /\ opt_no_exif \in IF script = "embed" THEN BOOLEAN ELSE {FALSE}
    /\ assets \in AssetSets
    /\ exif_none_ok \in IF script = "embed" /\ opt_no_exif THEN BOOLEAN ELSE {TRUE}
    /\ \E present \in SUBSET JpgPaths :
         \E content \in [present -> BatchImages] :
            fs = [p \in present \cup {OtherPath} |->
                     IF p \in present THEN content[p] ELSE ImgCorrupt]
    /\ pc = "idle"
    /\ pending = {}
    /\ todo = {}
    /\ cwd = << >>
    /\ runs = 0
    /\ handled = {}
    /\ written = {}
    /\ startFiles = {}
    /\ run1Files = {}
    /\ last = NoLast
    /\ probe = NoProbe

\* main(folder_path) is called
StartRun ==
    /\ pc \in {"idle", "done", "crashed"}
    /\ runs < MaxRuns
    /\ runs' = runs + 1
    /\ pc' = "walking"
    /\ pending' = {Root}
    /\ todo' = {}
    /\ cwd' = << >>
    /\ handled' = {}
    /\ written' = {}
    /\ startFiles' = DOMAIN fs
    /\ last' = NoLast
    /\ UNCHANGED <<script, opt_no_exif, assets, exif_none_ok, fs, run1Files, probe>>

\* os.walk yields the next directory with the list of its files
EnterDir ==
    /\ pc = "walking"
    /\ todo = {}
    /\ \E d \in pending :
         /\ cwd' = d
         /\ todo' = Listing(DOMAIN fs, d)
         /\ pending' = (pending \ {d}) \cup SubDirs(d)
    /\ UNCHANGED <<script, opt_no_exif, assets, exif_none_ok, fs, pc, runs,
                   handled, written, startFiles, run1Files, last, probe>>

\* one iteration of  for file in files  : the filter, get_image_metadata,
\* create_watermarked_image.  An exception that leaves either call leaves
\* main.
VisitFile ==
    /\ pc = "walking"
    /\ \E file \in todo :
         LET input_path == Join(cwd, file)
             md == GetImageMetadata(fs[input_path])
             r == Create(input_path, md.md)
         IN  /\ todo' = todo \ {file}
             /\ IF ~IsCandidate(file)
                THEN /\ last' = [path |-> input_path, step |-> "filtered",
                                 status |-> "", err |-> ""]
                     /\ UNCHANGED <<fs, pc, handled, written>>
                ELSE IF md.raised
                THEN /\ pc' = "crashed"
                     /\ last' = [path |-> input_path, step |-> "get_image_metadata",
                                 status |-> "raised", err |-> md.err]
                     /\ UNCHANGED <<fs, handled, written>>
                ELSE /\ handled' = handled \cup {input_path}
                     /\ fs' = Save(fs, input_path, r.out)
                     /\ written' = written \cup r.out
                     /\ pc' = IF r.status = "raised" THEN "crashed" ELSE "walking"
                     /\ last' = [path |-> input_path,
                                 step |-> "create_watermarked_image",
                                 status |-> r.status, err |-> r.err]
    /\ UNCHANGED <<script, opt_no_exif, assets, exif_none_ok, pending, cwd, runs,
                   startFiles, run1Files, probe>>

\* the walk is over: main returns
FinishRun ==
    /\ pc = "walking"
    /\ todo = {}
    /\ pending = {}
    /\ pc' = "done"
    /\ run1Files' = IF runs = 1 THEN DOMAIN fs ELSE run1Files
    /\ UNCHANGED <<script, opt_no_exif, assets, exif_none_ok, fs, pending, todo,
                   cwd, runs, handled, written, startFiles, last, probe>>

Next == StartRun \/ EnterDir \/ VisitFile \/ FinishRun

Spec == Init /\ [][Next]_vars

(***************************************************************************)
(* The functions on their own: each action below calls one function of     *)
(* the scripts on an input drawn from a bounded set and records the call   *)
(* and its result in probe; a behaviour makes one call.                    *)
(***************************************************************************)
Scripts == {"footer", "embed"}
TagNames == {TagOf(k) : k \in Fields}

\* values the decoder may give for FNumber: rational objects, and pairs
\* (the form the code's comment and its isinstance test expect), with and
\* without a zero denominator
FNumberValues == {Ratio(28, 10), Ratio(4, 1), Ratio(0, 0),
                  Tuple(28, 10), Tuple(4, 1), Tuple(11, 2), Tuple(28, 0)}

\* values the decoder may give for ExposureTime
ExposureValues == {Ratio(m, n) : m \in 0..MaxExp, n \in 0..MaxExp}

\* the camera makes tried
Makes == {MakeSony, MakeSonyAlpha, MakeHasselblad, MakeHasselbladLower,
          MakeCanon, MakeBoth, MakeBothSonyFirst, StrUnknown}

\* decodable and undecodable files, with and without an EXIF block, the
\* block holding any subset of the eight tags and any of the FNumber values
ProbeImages ==
    {ImgCorrupt, ImgNoExif} \cup
    {Image(TRUE, TRUE, [Without(FullExif(MakeSony), absent) EXCEPT !["FNumber"] = f]) :
        absent \in SUBSET (TagNames \ {"FNumber"}), f \in FNumberValues} \cup
    {Image(TRUE, TRUE, Without(FullExif(MakeSony), absent \cup {"FNumber"})) :
        absent \in SUBSET (TagNames \ {"FNumber"})}

\* the running script's create_watermarked_image, as a call of its own
CreateOf(sc, input_path, metadata, noexif, sig_size, center, env) ==
    IF sc = "footer"
    THEN CreateWatermarkedImageFooter(input_path, OutputPath(input_path),
                                      metadata, env)
    ELSE CreateWatermarkedImageEmbed(input_path, OutputPath(input_path),
                                     metadata, noexif, sig_size, center, env)

ProbePath == Join(Root, NameA)

InitFn ==
    /\ script = "footer"
    /\ opt_no_exif = FALSE
    /\ assets = AllAssets
    /\ exif_none_ok = TRUE
    /\ fs = [p \in {OtherPath} |-> ImgCorrupt]
    /\ pc = "idle"
    /\ pending = {}
    /\ todo = {}
    /\ cwd = << >>
    /\ runs = 0
    /\ handled = {}
    /\ written = {}
    /\ startFiles = {}
    /\ run1Files = {}
    /\ last = NoLast
    /\ probe = NoProbe

batchVars == <<script, opt_no_exif, assets, exif_none_ok, fs, pc, pending, todo, cwd, runs,
               handled, written, startFiles, run1Files, last>>

\* get_image_metadata on one file
ProbeGetImageMetadata ==
    /\ probe = NoProbe
    /\ \E img \in ProbeImages :
         probe' = [fn |-> "get_image_metadata", img |-> img,
                   res |-> GetImageMetadata(img)]
    /\ UNCHANGED batchVars

\* create_watermarked_image on the metadata of a file whose ExposureTime
\* tag is absent or has one of ExposureValues
ProbeExposure ==
    /\ probe = NoProbe
    /\ \E sc \in Scripts, tag \in {"absent", "present"}, v \in ExposureValues :
         LET exif == IF tag = "absent"
                     THEN Without(FullExif(MakeSony), {"ExposureTime"})
                     ELSE [FullExif(MakeSony) EXCEPT !["ExposureTime"] = v]
             img == Image(TRUE, TRUE, exif)
             metadata == GetImageMetadata(img).md
             env == [img |-> img, size |-> BatchSize, sigsize |-> BatchSigSize,
                     assets |-> AllAssets, exifNoneOk |-> TRUE]
         IN  probe' = [fn |-> "exposure", script |-> sc, metadata |-> metadata,
                       res |-> CreateOf(sc, ProbePath, metadata, FALSE,
                                        DefaultSigSize, FALSE, env)]
    /\ UNCHANGED batchVars

\* create_watermarked_image of the footer script on the metadata of a file
\* with a given make (or none), with and without FocalLength, under each
\* set of assets
ProbeTemplate ==
    /\ probe = NoProbe
    /\ \E make \in Makes, tags \in {{}, {"Make"}, {"FocalLength"}}, a \in AssetSets :
         LET img == Image(TRUE, TRUE, Without(FullExif(make), tags))
             metadata == GetImageMetadata(img).md
             env == [img |-> img, size |-> BatchSize, sigsize |-> BatchSigSize,
                     assets |-> a, exifNoneOk |-> TRUE]
         IN  probe' = [fn |-> "template", metadata |-> metadata, assets |-> a,
                       res |-> CreateOf("footer", ProbePath, metadata, FALSE,
                                        DefaultSigSize, FALSE, env)]
    /\ UNCHANGED batchVars

\* create_watermarked_image of the overlay script on a source image and a
\* signature asset of given pixel sizes, for a given --size
ProbeScale ==
    /\ probe = NoProbe
    /\ \E W \in 1..MaxDim, H \in 1..MaxDim, w \in 1..MaxSig, h \in 1..MaxSig,
          r \in SigSizes, noexif \in BOOLEAN :
         LET img == ImgSony
             metadata == GetImageMetadata(img).md
             env == [img |-> img, size |-> <<W, H>>, sigsize |-> <<w, h>>,
                     assets |-> AllAssets, exifNoneOk |-> TRUE]
         IN  probe' = [fn |-> "scale", size |-> <<W, H>>, sigsize |-> <<w, h>>,
                       sig_size |-> r, no_exif |-> noexif,
                       res |-> CreateOf("embed", ProbePath, metadata, noexif,
                                        r, FALSE, env)]
    /\ UNCHANGED batchVars

NextFn == ProbeGetImageMetadata \/ ProbeExposure \/ ProbeTemplate \/ ProbeScale

SpecFn == InitFn /\ [][NextFn]_vars

(***************************************************************************)
(* The claims.                                                             *)
(***************************************************************************)

\* C1: main() handles every candidate file of the walk and returns
\* normally, whatever happens to the single files: no exception leaves
\* main, and when main has returned every candidate that existed when the
\* run started has been given to create_watermarked_image.
C1_WalkCompletes ==
    /\ pc # "crashed"
    /\ pc = "done" =>
         \A p \in startFiles : IsCandidate(Basename(p)) => p \in handled

\* C2: get_image_metadata never raises on a decodable image, whatever
\* subset of the tags its EXIF block has, and the F-Value it returns is a
\* decimal string or the default pair.
C2_MetadataNeverRaises ==
    (probe.fn = "get_image_metadata" /\ probe.img.decodable) =>
        /\ ~probe.res.raised
        /\ probe.img.hasExif =>
             \/ probe.res.md["F-Value"].kind = "str"
             \/ probe.res.md["F-Value"] = DefaultOf("F-Value")
             \/ "FNumber" \in DOMAIN probe.img.exif
                   /\ probe.res.md["F-Value"] = probe.img.exif["FNumber"]

\* C3: whenever get_image_metadata returns, the result has all eight
\* fields, each the value of its tag or its default (the F-Value possibly
\* as a decimal string), also when the image has no EXIF block.
C3_AllEightFields ==
    (probe.fn = "get_image_metadata" /\ ~probe.res.raised) =>
        /\ DOMAIN probe.res.md = Fields
        /\ \A k \in Fields :
             \/ TagOf(k) \in DOMAIN probe.img.exif
                   /\ probe.res.md[k] = probe.img.exif[TagOf(k)]
             \/ TagOf(k) \notin DOMAIN probe.img.exif
                   /\ probe.res.md[k] = DefaultOf(k)
             \/ k = "F-Value" /\ probe.res.md[k].kind = "str"

\* C4: no file whose name ends in "-sig.jpg" is given to
\* create_watermarked_image, and once a first run has returned a later run
\* creates no file.
C4_OutputsNotReprocessed ==
    /\ \A p \in handled : ~EndsWith(p, SigSuffix)
    /\ run1Files # {} => DOMAIN fs \subseteq run1Files

\* C5: a run writes only the path p[:-4] + "-sig.jpg" of a handled input
\* p, which differs from p, at most one path per handled input, and never
\* a path that the run uses as an input or that was in the directory as a
\* candidate when the run started.
C5_InputsNotOverwritten ==
    /\ written \subseteq {OutputPath(p) : p \in handled}
    /\ \A p \in handled : OutputPath(p) # p
    /\ Cardinality(written) <= Cardinality(handled)
    /\ \A w \in written :
         /\ w \notin handled
         /\ ~(w \in startFiles /\ IsCandidate(Basename(w)))

\* C6: for metadata whose ExposureTime has denominator 0, the default pair
\* (0,0) of an absent tag included, the exposure is formatted as "Unknown"
\* and the caption is composed (here every later step succeeds, so the
\* output is saved).
C6_ZeroDenominatorUnknown ==
    (probe.fn = "exposure" /\ probe.metadata["ExposureTime"].den = 0) =>
        /\ probe.res.exposure = "Unknown"
        /\ probe.res.status = "saved"

C8_TemplateSelection ==
    (probe.fn = "template" /\ "Device Make" \in DOMAIN probe.metadata) =>
        LET make == probe.metadata["Device Make"].cs
            hasH == Contains(Lower(make), StrHasselblad)
            hasS == Contains(Lower(make), StrSony)
        IN  /\ hasH => /\ probe.res.template = "watermark-hasselblad.png"
                       /\ probe.res.status # "skipped"
            /\ (~hasH /\ hasS) => /\ probe.res.template = "watermark-sony.png"
                                  /\ probe.res.status # "skipped"
            /\ (~hasH /\ ~hasS) => /\ probe.res.status = "skipped"
                                   /\ probe.res.out = {}
            /\ make = MakeSonyAlpha => probe.res.template = "watermark-sony.png"
            /\ make \in {MakeHasselblad, MakeBoth, MakeBothSonyFirst} =>
                  probe.res.template = "watermark-hasselblad.png"
            /\ make \in {MakeCanon, StrUnknown} =>
                  probe.res.status = "skipped" /\ probe.res.out = {}
            /\ probe.res.out # {} => probe.res.template \in probe.assets

\* C8 witness: a make that contains both names got the Hasselblad
\* template and its output was saved.
C8_Witness ==
    /\ probe.fn = "template"
    /\ "Device Make" \in DOMAIN probe.metadata
    /\ probe.metadata["Device Make"].cs = MakeBothSonyFirst
    /\ probe.res.template = "watermark-hasselblad.png"
    /\ probe.res.status = "saved"

\* round(p * x / q) as Python rounds: to the nearest integer, a half to
\* the even one
RoundRatio(x, p, q) ==
    LET f == (x * p) \div q
        rem == x * p - f * q
    IN  IF 2 * rem < q THEN f
        ELSE IF 2 * rem > q THEN f + 1
        ELSE IF f % 2 = 0 THEN f ELSE f + 1

\* C9 as stated: when the overlay script has scaled the signature and
\* saved its output, the scaled signature's width is within one pixel of
\* round(r * max(W, H)) and its width : height equals the asset's w : h.
C9_ScaleAsStated ==
    (probe.fn = "scale" /\ probe.res.status = "saved") =>
        LET R == RoundRatio(Max(probe.size[1], probe.size[2]),
                            probe.sig_size[1], probe.sig_size[2])
        IN  /\ probe.res.sig[1] - R \in -1..1
            /\ probe.res.sig[1] * probe.sigsize[2]
                  = probe.res.sig[2] * probe.sigsize[1]

\* C9 as amended: when the overlay script has scaled the signature and
\* saved its output, the scaled signature's width is within one pixel of
\* round(r * max(W, H)), and its height is h * width / w truncated to a
\* whole pixel, so the aspect ratio is the asset's up to that truncation.
C9_ScaledSignature ==
    (probe.fn = "scale" /\ probe.res.status = "saved") =>
        LET R == RoundRatio(Max(probe.size[1], probe.size[2]),
                            probe.sig_size[1], probe.sig_size[2])
            d == probe.sigsize[2] * probe.res.sig[1]
                    - probe.sigsize[1] * probe.res.sig[2]
        IN  /\ probe.res.sig[1] - R \in -1..1
            /\ 0 <= d
            /\ d < probe.sigsize[1]

\* C9 witness: a 3x8 source, a 3x2 signature and ratio 1/2 gave a 4x2
\* signature (the height 8/3 truncated), and the output was saved.
C9_Witness ==
    /\ probe.fn = "scale"
    /\ probe.size = <<3, 8>>
    /\ probe.sigsize = <<3, 2>>
    /\ probe.sig_size = <<1, 2>>
    /\ probe.res.sig = <<4, 2>>
    /\ probe.res.status = "saved"

\* C10: when a step of create_watermarked_image fails before the save,
\* the call returns normally, no file is written and the walk goes on.
C10_FailureCaught ==
    [][(/\ last'.step = "create_watermarked_image"
        /\ last'.err # ""
        /\ handled' # handled)
          => (fs' = fs /\ written' = written /\ pc' = "walking")]_vars

\* C10 witness: the caption of a file without FocalLength failed on
\* int("??"), nothing was written for it and the walk is going on.
C10_Witness ==
    /\ last.step = "create_watermarked_image"
    /\ last.status = "caught"
    /\ last.err = "ValueError"
    /\ OutputPath(last.path) \notin DOMAIN fs
    /\ pc = "walking"

====
